---- MODULE Spec2Model ----
(***************************************************************************)
(* Wave Function Collapse engine (src/waveFunctionCollapse.js) with its    *)
(* collaborators: Tile (src/tile.js), Cell (src/unnamed/part_001), Grid    *)
(* (src/grid.js) and the seeded generator Rng (src/pseudorandom.js, the    *)
(* second definition, lines 16-38, which is the one the engine's calls     *)
(* nextFloat / setSeed resolve to).                                        *)
(*                                                                         *)
(* Numbers.  JavaScript numbers are IEEE doubles.                          *)
(*  - Rng.nextFloat: the value (temp*temp*temp % 2038074743) is modelled   *)
(*    bit-exactly: products are rounded to 53 significant bits (round to   *)
(*    nearest, ties to even) on multi-limb integers, and the remainder is  *)
(*    exact.  nextFloat returns numerator/2038074743 * max; the model      *)
(*    keeps the integer numerator.                                         *)
(*  - Tile.weight = weight/10 is kept as the integer number of tenths.     *)
(*  - Tile.entropy = -w*log2(w) is kept in millionths (rounded), NaN for   *)
(*    a weight <= 0.  A cell's entropy is a pair (base, noise): base in    *)
(*    millionths, noise the numerator of the draw scaled by 1e-12, which   *)
(*    is below one millionth, so the order of entropies is the             *)
(*    lexicographic order of the pairs.  Sums of entropies are exact.      *)
(*  - Math.random in Rng.setSeed is a choice among 0..MaxRandomSeed.       *)
(*                                                                         *)
(* Specifications.                                                         *)
(*  - Spec: one engine, constructed and run; regenerations of the grid    *)
(*    are followed up to MaxRegens.                                        *)
(*  - SpecTwice: after the run has ended a second engine is constructed    *)
(*    from the same arguments and run.                                     *)
(*  - LiveSpec: engines with a catalog of one tile, run to the end.        *)
(*  - PassSpec: Spec with every propagation pass carried on to its end.    *)
(*  - SpecGrid: a Grid on its own, with and without wraparound, and calls  *)
(*    of getAdjacent.                                                      *)
(*  - SpecRng: an Rng on its own, and calls of nextFloat and nextInt.      *)
(***************************************************************************)
EXTENDS Integers, Sequences, FiniteSets, TLC

\* ------------------------------------------------------------------ bounds
MaxWidth == 2
MaxHeight == 2
MaxTiles == 3
MaxSeedArg == 2
MaxRunSeedArg == 1
MaxRandomSeed == 1
MaxRegens == 2
MaxGridDim == 4
MaxMaxArg == 4

\* ------------------------------------------------------------------- state
VARIABLES
    width, height, catalog, seedArg, runSeedArg,  \* constructor and run arguments
    tiles,            \* this.tiles
    seed,             \* this.rng.seed
    grid,             \* this.grid
    pc,               \* position of the caller in run / collapse / propagate
    selected,         \* run: the coordinates returned by getLowestEntropyCoordinates
    stack,            \* propagateAtCoordinates: stack
    coordinates,      \* propagateAtCoordinates: coordinatesFromStack
    adjacent,         \* propagateAtCoordinates: the list being iterated
    adjacencyIndex,   \* propagateAtCoordinates: position in that list
    regens,           \* number of regenerateGrid calls made
    first,            \* outcome of the previous engine built from the same arguments
    result,           \* what the last call of a method of Rng returned to its caller
    pushes            \* stack.push calls made by the current propagateAtCoordinates

vars == <<width, height, catalog, seedArg, runSeedArg, tiles, seed, grid, pc,
          selected, stack, coordinates, adjacent, adjacencyIndex, regens, first,
          result, pushes>>

\* ------------------------------------------------- Rng (pseudorandom.js)
Multiplier == 15485863
Modulus == 2038074743
MantissaBits == 53
LimbBits == 13
LimbBase == 8192
Limbs == 9

PowersOfTwo == <<1, 2, 4, 8, 16, 32, 64, 128, 256, 512, 1024, 2048, 4096, 8192>>

Pow2(n) == PowersOfTwo[n + 1]

\* A non-negative integer as Limbs limbs of LimbBits bits, least significant first.
BigFromInt(n) ==
    [fi \in 1..Limbs |->
        IF fi = 1 THEN n % LimbBase
        ELSE IF fi = 2 THEN (n \div LimbBase) % LimbBase
        ELSE IF fi = 3 THEN n \div (LimbBase * LimbBase)
        ELSE 0]

RECURSIVE ColumnSum(_, _, _, _)
ColumnSum(a, b, k, i) ==
    IF i > k THEN 0
    ELSE a[i] * b[k + 1 - i] + ColumnSum(a, b, k, i + 1)

RECURSIVE Normalize(_, _, _, _)
Normalize(cols, i, carry, acc) ==
    IF i > Limbs THEN acc
    ELSE LET total == cols[i] + carry
         IN  Normalize(cols, i + 1, total \div LimbBase,
                       Append(acc, total % LimbBase))

BigMul(a, b) ==
    Normalize([mk \in 1..Limbs |-> ColumnSum(a, b, mk, 1)], 1, 0, <<>>)

BigAdd(a, b) ==
    Normalize([an \in 1..Limbs |-> a[an] + b[an]], 1, 0, <<>>)

Bit(a, i) == (a[(i \div LimbBits) + 1] \div Pow2(i % LimbBits)) % 2

\* Number of significant bits of one limb, and of the whole number.
LimbBitLength(x) ==
    CHOOSE lb \in 0..LimbBits : x < Pow2(lb) /\ (lb = 0 \/ x >= Pow2(lb - 1))

BitLength(a) ==
    LET used == {bj \in 1..Limbs : a[bj] # 0}
    IN  IF used = {} THEN 0
        ELSE LET top == CHOOSE bt \in used : \A bo \in used : bo <= bt
             IN  (top - 1) * LimbBits + LimbBitLength(a[top])

\* Is some bit below position k set?
AnyBitBelow(a, k) ==
    \E aj \in 1..Limbs :
        LET lo == (aj - 1) * LimbBits
        IN  /\ lo < k
            /\ IF lo + LimbBits <= k THEN a[aj] # 0
               ELSE a[aj] % Pow2(k - lo) # 0

Truncate(a, k) ==
    [tj \in 1..Limbs |->
        LET lo == (tj - 1) * LimbBits
        IN  IF k >= lo + LimbBits THEN 0
            ELSE IF k <= lo THEN a[tj]
            ELSE a[tj] - (a[tj] % Pow2(k - lo))]

BigPow2(k) ==
    [pj \in 1..Limbs |->
        IF pj = (k \div LimbBits) + 1 THEN Pow2(k % LimbBits) ELSE 0]

\* The double nearest to the integer a (round to nearest, ties to even).
RoundToDouble(a) ==
    LET len == BitLength(a)
        drop == len - MantissaBits
    IN  IF drop <= 0 THEN a
        ELSE LET up == Bit(a, drop - 1) = 1
                       /\ (AnyBitBelow(a, drop - 1) \/ Bit(a, drop) = 1)
             IN  IF up THEN BigAdd(Truncate(a, drop), BigPow2(drop))
                 ELSE Truncate(a, drop)

\* (r * 2^n + the low n bits of limb) % m for r < m, by binary long division,
\* without leaving 32-bit integers.
RECURSIVE LimbMod(_, _, _, _)
LimbMod(r, limb, n, m) ==
    IF n = 0 THEN r
    ELSE LET bit == (limb \div Pow2(n - 1)) % 2
         IN  IF r >= m - r - bit
             THEN LimbMod(r - (m - r - bit), limb, n - 1, m)
             ELSE LimbMod(r + r + bit, limb, n - 1, m)

\* a % m, from limb j down.
RECURSIVE BigMod(_, _, _, _)
BigMod(a, m, j, r) ==
    IF j < 1 THEN r
    ELSE BigMod(a, m, j - 1, LimbMod(r, a[j], LimbBits, m))

\* nextFloat, lines 25-27, for the already incremented seed:
\*   temp = seed * 15485863;  temp * temp * temp % 2038074743
randomNumerator(seedValue) ==
    LET temp == BigMul(BigFromInt(seedValue), BigFromInt(Multiplier))
        cube == RoundToDouble(BigMul(RoundToDouble(BigMul(temp, temp)), temp))
    IN  BigMod(cube, Modulus, Limbs, 0)

\* p * q < r * t for p, r below 2^31 and small q, t, without leaving 32-bit
\* integers: both products are split at LimbBase.
ProductHigh(p, q) == (p \div LimbBase) * q + ((p % LimbBase) * q) \div LimbBase

ProductLow(p, q) == ((p % LimbBase) * q) % LimbBase

ProductLess(p, q, r, t) ==
    \/ ProductHigh(p, q) < ProductHigh(r, t)
    \/ /\ ProductHigh(p, q) = ProductHigh(r, t)
       /\ ProductLow(p, q) < ProductLow(r, t)

\* Seeds the generator can hold within the bounds, and its draws for them.
MaxOf(p, q) == IF p >= q THEN p ELSE q

SeedLimit ==
    MaxOf(MaxOf(MaxSeedArg, MaxRunSeedArg), MaxRandomSeed)
        + 2 * (MaxRegens + 2) * MaxOf(MaxWidth * MaxHeight, 1)

RandomTable == [rs \in 1..SeedLimit |-> randomNumerator(rs)]

\* a setSeed that ignores its argument
setSeedIgnoring(seedValue) == {rv \in 0..MaxRandomSeed : TRUE}

\* setSeed, lines 34-36: a falsy seed is replaced by Math.floor(Math.random() * 500);
\* the operator gives the set of seeds the call can leave.
RandomCeiling == 500

setSeed(seedValue) ==
    IF seedValue # 0 THEN {seedValue}
    ELSE {rv \in 0..MaxRandomSeed : rv < RandomCeiling}

\* ------------------------------------------------------- JavaScript numbers
NaN == [kind |-> "NaN", base |-> 0, noise |-> 0]

Infinity == [kind |-> "Infinity", base |-> 0, noise |-> 0]

Number(b, n) == [kind |-> "number", base |-> b, noise |-> n]

\* p + q for numbers that are finite or NaN
Plus(p, q) ==
    IF p.kind = "NaN" \/ q.kind = "NaN" THEN NaN
    ELSE Number(p.base + q.base, p.noise + q.noise)

\* p > q
GreaterThan(p, q) ==
    IF p.kind = "NaN" \/ q.kind = "NaN" THEN FALSE
    ELSE IF p.kind = "Infinity" THEN q.kind # "Infinity"
    ELSE IF q.kind = "Infinity" THEN FALSE
    ELSE p.base > q.base \/ (p.base = q.base /\ p.noise > q.noise)

\* ------------------------------------------------------------ Tile (tile.js)
\* -w * Math.log2(w) for w = weight / 10, in millionths, line 12
EntropyMillionths ==
    <<332193, 464386, 521090, 528771, 500000, 442179, 360201, 257542, 136803, 0,
      -151254, -315641, -492065, -679598, -877444, -1084915, -1301409, -1526394,
      -1759399, -2000000>>

TileEntropy(weight) ==
    IF weight <= 0 THEN NaN
    ELSE Number(EntropyMillionths[weight], 0)

\* Tile(value, sockets, weight); the weight field is in tenths
Tile(value, sockets, weight) ==
    [value |-> value,
     sockets |-> sockets,
     weight |-> weight,
     validAdjacent |-> [vd \in 1..Len(sockets) |-> <<>>],
     entropy |-> TileEntropy(weight)]

\* ---------------------------------------------------- Cell (unnamed/part_001)
UndefinedOptions == <<-1>>

UndefinedList == <<>>

Cell(options, startingEntropy, startingWeightSum) ==
    [value |-> "undefined",
     sockets |-> UndefinedList,
     options |-> options,
     validAdjacent |-> UndefinedList,
     entropy |-> startingEntropy,
     sumOfWeights |-> startingWeightSum,
     isCollapsed |-> FALSE]

\* a collapse that leaves the options in place
collapseKeepingOptions(cell, tile) ==
    [cell EXCEPT !.value = tile.value,
                 !.sockets = tile.sockets,
                 !.validAdjacent = tile.validAdjacent,
                 !.entropy = Infinity,
                 !.isCollapsed = TRUE]

collapse(cell, tile) ==
    [cell EXCEPT !.value = tile.value,
                 !.sockets = tile.sockets,
                 !.options = UndefinedOptions,
                 !.validAdjacent = tile.validAdjacent,
                 !.entropy = Infinity,
                 !.isCollapsed = TRUE]

\* ------------------------------------------------------------ Grid (grid.js)
\* this.offsets, lines 8-13
offsets ==
    <<[x |-> 0, y |-> -1, direction |-> 0, opposite |-> 2],
      [x |-> 1, y |-> 0, direction |-> 1, opposite |-> 3],
      [x |-> 0, y |-> 1, direction |-> 2, opposite |-> 0],
      [x |-> -1, y |-> 0, direction |-> 3, opposite |-> 1]>>

Grid(x, y, isWrappingAllowed) ==
    [dimensions |-> [x |-> x, y |-> y],
     isWrappingAllowed |-> isWrappingAllowed,
     size |-> x * y,
     items |-> [gi \in 1..(x * y) |-> "null"]]

verifyBounds(g, x, y) ==
    IF g.isWrappingAllowed THEN TRUE
    ELSE /\ x >= 0
         /\ x < g.dimensions.x
         /\ y >= 0
         /\ y < g.dimensions.y

getIndexFromCoordinates(g, x, y) == x + y * g.dimensions.x

\* get returns undefined when verifyBounds fails or the index is no index of items
isDefinedAt(g, x, y) ==
    /\ verifyBounds(g, x, y)
    /\ getIndexFromCoordinates(g, x, y) + 1 \in DOMAIN g.items

get(g, x, y) == g.items[getIndexFromCoordinates(g, x, y) + 1]

set(g, x, y, value) ==
    IF verifyBounds(g, x, y)
    THEN [g EXCEPT !.items[getIndexFromCoordinates(g, x, y) + 1] = value]
    ELSE g

getCoordinatesFromIndex(g, index) ==
    [x |-> index % g.dimensions.x, y |-> index \div g.dimensions.x]

getAdjacent(g, x, y) ==
    LET described ==
            [oi \in 1..Len(offsets) |->
                [x |-> x + offsets[oi].x,
                 y |-> y + offsets[oi].y,
                 index |-> (x + offsets[oi].x) + (y + offsets[oi].y) * g.dimensions.x,
                 direction |-> oi - 1,
                 oppositeDirection |-> offsets[oi].opposite]]
    IN  SelectSeq(described, LAMBDA info : verifyBounds(g, info.x, info.y))

\* ------------------------------ WaveFunctionCollapse (waveFunctionCollapse.js)
\* an opposite that is the direction itself
offsetSame(index) == index

\* offsetOpposite, line 37
offsetOpposite(index) == (index + 2) % 4

\* sockets that never fit
socketsNeverFit(tile, index, potentialAdjacent) == FALSE

\* potentialAdjacent may stand in direction `index` of `tile`, line 61
socketsFit(tile, index, potentialAdjacent) ==
    tile.sockets[index + 1] = potentialAdjacent.sockets[offsetOpposite(index) + 1]

\* the indices 0..n-1 in order
Indices(n) == [ix \in 1..n |-> ix - 1]

defineAdjacencies(ts) ==
    [di \in 1..Len(ts) |->
        [ts[di] EXCEPT !.validAdjacent =
            [dd \in 1..Len(ts[di].sockets) |->
                ts[di].validAdjacent[dd]
                    \o SelectSeq(Indices(Len(ts)),
                                 LAMBDA pa : socketsFit(ts[di], dd - 1, ts[pa + 1]))]]]

Includes(list, element) == \E li \in 1..Len(list) : list[li] = element

\* getTiles for an array of indices: the tiles, in catalog order
getTiles(ts, indices) ==
    LET kept == SelectSeq(Indices(Len(ts)), LAMBDA ki : Includes(indices, ki))
    IN  [gk \in 1..Len(kept) |-> ts[kept[gk] + 1]]

RECURSIVE SumEntropy(_, _)
SumEntropy(list, from) ==
    IF from > Len(list) THEN Number(0, 0)
    ELSE Plus(list[from].entropy, SumEntropy(list, from + 1))

RECURSIVE SumWeight(_, _)
SumWeight(list, from) ==
    IF from > Len(list) THEN 0
    ELSE list[from].weight + SumWeight(list, from + 1)

getEntropyByIndices(ts, indices) == SumEntropy(getTiles(ts, indices), 1)

\* a sum of weights that is never recomputed from the indices
sumOfAllWeights(ts, indices) == SumWeight(ts, 1)

getSumOfWeightsByIndices(ts, indices) == SumWeight(getTiles(ts, indices), 1)

\* nextFloat(max) with the generator at seedValue: the seed becomes seedValue + 1
\* and the result is nextFloat(seedValue) / Modulus * max.
nextFloat(seedValue) == RandomTable[seedValue + 1]

\* generateEmptyGrid with the generator at seedValue; cell number ci (1-based,
\* row-major) takes draw number ci as its noise.
generateEmptyGrid(ts, w, h, seedValue) ==
    LET tileIndices == Indices(Len(ts))
        startingEntropy == getEntropyByIndices(ts, tileIndices)
        startingWeightSum == getSumOfWeightsByIndices(ts, tileIndices)
        empty == Grid(w, h, FALSE)
    IN  [empty EXCEPT !.items =
            [ci \in 1..empty.size |->
                Cell(tileIndices,
                     Plus(startingEntropy, Number(0, nextFloat(seedValue + ci - 1))),
                     startingWeightSum)]]

\* a generation that leaves the generator where it was
seedKept(seedValue, w, h) == seedValue

\* the generator's seed after generateEmptyGrid: one draw per cell
seedAfterGeneration(seedValue, w, h) == seedValue + w * h

\* a test that is satisfied by one collapsed cell
someCollapsed(g) == \E ic \in DOMAIN g.items : g.items[ic].isCollapsed

isCollapsed(g) == \A ic \in DOMAIN g.items : g.items[ic].isCollapsed

UndefinedCoordinates == [x |-> -1, y |-> -1]

RECURSIVE ScanLowest(_, _, _, _)
ScanLowest(g, index, lowestCoordinates, lowestEntropy) ==
    IF index >= g.size THEN lowestCoordinates
    ELSE IF GreaterThan(lowestEntropy, g.items[index + 1].entropy)
         THEN ScanLowest(g, index + 1, getCoordinatesFromIndex(g, index),
                         g.items[index + 1].entropy)
         ELSE ScanLowest(g, index + 1, lowestCoordinates, lowestEntropy)

getLowestEntropyCoordinates(g) == ScanLowest(g, 0, UndefinedCoordinates, Infinity)

\* the find of collapseCoordinates, lines 183-186: the position (1-based) in
\* possibleTiles of the first tile that brings randomChoice below zero, 0 for
\* undefined.  randomChoice = numerator / Modulus * sumOfWeights, so after
\* subtracting the weights up to `subtracted` it is negative exactly when
\* numerator * sumOfWeights < Modulus * subtracted.
RECURSIVE FindChoice(_, _, _, _, _)
FindChoice(possibleTiles, from, subtracted, numerator, sumOfWeights) ==
    IF from > Len(possibleTiles) THEN 0
    ELSE LET now == subtracted + possibleTiles[from].weight
         IN  IF ProductLess(numerator, sumOfWeights, Modulus, now)
             THEN from
             ELSE FindChoice(possibleTiles, from + 1, now, numerator, sumOfWeights)

\* a find that takes the first possible tile whatever the draw
firstTile(possibleTiles, numerator, sumOfWeights) ==
    IF possibleTiles = <<>> THEN 0 ELSE 1

choosenTile(possibleTiles, numerator, sumOfWeights) ==
    FindChoice(possibleTiles, 1, 0, numerator, sumOfWeights)

\* a filter that keeps every option
keptOptions(adjacentCell, cellValidAdjacencies) == adjacentCell.options

\* line 211
newOptions(adjacentCell, cellValidAdjacencies) ==
    SelectSeq(adjacentCell.options,
              LAMBDA tileIndex : Includes(cellValidAdjacencies, tileIndex))

\* a test that looks at the neighbour only
neighbourUncollapsed(cell, adjacentCell) == ~adjacentCell.isCollapsed

\* line 209: a collapsed cell constrains an uncollapsed neighbour
constrains(cell, adjacentCell) == cell.isCollapsed /\ ~adjacentCell.isCollapsed

\* a test that also passes when the filter removed nothing
hasNotGrown(filtered, adjacentCell) == Len(filtered) <= Len(adjacentCell.options)

\* line 216: the filter removed an option
hasShrunk(filtered, adjacentCell) == Len(filtered) < Len(adjacentCell.options)

\* a pair check that never finds a difference
socketsNeverDiffer(cell, adjacentCell, adjacencyInfo) == FALSE

\* line 205
socketsDiffer(cell, adjacentCell, adjacencyInfo) ==
    adjacentCell.sockets[offsetOpposite(adjacencyInfo.direction) + 1]
        # cell.sockets[adjacencyInfo.direction + 1]

\* ---------------------------------------------------------------- arguments
\* Tiles a caller may pass: value, sockets (up, right, down, left), weight.
TilePool ==
    <<Tile("P", <<0, 0, 0, 0>>, 1),
      Tile("Q", <<0, 0, 0, 0>>, 3),
      Tile("R", <<1, 1, 1, 1>>, 20),
      Tile("E", <<0, 0, 0, 1>>, 10),
      Tile("F", <<1, 0, 0, 0>>, 1),
      Tile("Z", <<0, 0, 0, 0>>, 0)>>

Catalogs ==
    UNION {{[cp \in 1..cn |-> TilePool[pick[cp]]] :
               pick \in {cf \in [1..cn -> 1..Len(TilePool)] :
                            \A c1, c2 \in 1..cn : c1 # c2 => cf[c1] # cf[c2]}} :
           cn \in 0..MaxTiles}

NoFirst == [built |-> FALSE, outcome |-> "none", items |-> <<>>, regens |-> 0]

\* What a method of Rng returned.  A number is numerator * factor / divisor: a
\* draw has divisor Modulus, an integer has factor 1 and divisor 1.
Returned(n, factor, divisor) ==
    [type |-> "number", numerator |-> n, factor |-> factor, divisor |-> divisor]

Undefined == [type |-> "undefined", numerator |-> 0, factor |-> 0, divisor |-> 1]

\* no method of Rng has been called by the caller yet
NoResult == [type |-> "none", numerator |-> 0, factor |-> 0, divisor |-> 1]

\* ------------------------------------------------------------------ actions
\* new WaveFunctionCollapse(width, height, tiles, seed), lines 30-49
Construct(catalogs) ==
    \E w \in 0..MaxWidth, h \in 0..MaxHeight, c \in catalogs,
       sa \in 0..MaxSeedArg, ra \in 0..MaxRunSeedArg :
        \E s0 \in setSeed(sa) :
            /\ width = w
            /\ height = h
            /\ catalog = c
            /\ seedArg = sa
            /\ runSeedArg = ra
            /\ tiles = defineAdjacencies(c)
            /\ grid = generateEmptyGrid(defineAdjacencies(c), w, h, s0)
            /\ seed = seedAfterGeneration(s0, w, h)
            /\ pc = "constructed"
            /\ selected = UndefinedCoordinates
            /\ stack = <<>>
            /\ coordinates = UndefinedCoordinates
            /\ adjacent = <<>>
            /\ adjacencyIndex = 0
            /\ regens = 0
            /\ first = NoFirst
            /\ result = NoResult
            /\ pushes = 0

Init == Construct(Catalogs)

\* run(seed), lines 135-137: the optional reseeding
run ==
    /\ pc = "constructed"
    /\ \E s1 \in (IF runSeedArg # 0 THEN setSeed(runSeedArg) ELSE {seed}) :
           seed' = s1
    /\ pc' = "running"
    /\ UNCHANGED <<width, height, catalog, seedArg, runSeedArg, tiles, grid, selected,
                   stack, coordinates, adjacent, adjacencyIndex, regens, first,
                   result, pushes>>

\* run, lines 138-142: the loop test, the selection, or the return
runLoop ==
    /\ pc = "running"
    /\ IF isCollapsed(grid)
       THEN /\ pc' = "returned"
            /\ selected' = selected
       ELSE /\ pc' = "collapse"
            /\ selected' = getLowestEntropyCoordinates(grid)
    /\ UNCHANGED <<width, height, catalog, seedArg, runSeedArg, tiles, seed, grid,
                   stack, coordinates, adjacent, adjacencyIndex, regens, first,
                   result, pushes>>

\* collapseCoordinates(x, y), lines 179-188, up to the call of propagateAtCoordinates
\* and the first line of it; reading a property of undefined throws.
collapseCoordinates ==
    /\ pc = "collapse"
    /\ IF ~isDefinedAt(grid, selected.x, selected.y)
       THEN /\ pc' = "threw"
            /\ UNCHANGED <<seed, grid, stack>>
       ELSE LET cell == get(grid, selected.x, selected.y)
                possibleTiles == getTiles(tiles, cell.options)
                choice == choosenTile(possibleTiles, nextFloat(seed), cell.sumOfWeights)
            IN  /\ seed' = seed + 1
                /\ IF choice = 0
                   THEN /\ pc' = "threw"
                        /\ UNCHANGED <<grid, stack>>
                   ELSE /\ grid' = set(grid, selected.x, selected.y,
                                       collapse(cell, possibleTiles[choice]))
                        /\ stack' = <<selected>>
                        /\ pc' = "propagate"
    /\ pushes' = 0
    /\ UNCHANGED <<width, height, catalog, seedArg, runSeedArg, tiles, selected,
                   coordinates, adjacent, adjacencyIndex, regens, first, result>>

\* propagateAtCoordinates, lines 199-202: stack.pop() and the neighbours to visit
pop ==
    /\ pc = "propagate"
    /\ stack # <<>>
    /\ LET coordsFromStack == stack[Len(stack)]
           list == getAdjacent(grid, coordsFromStack.x, coordsFromStack.y)
       IN  /\ coordinates' = coordsFromStack
           /\ stack' = SubSeq(stack, 1, Len(stack) - 1)
           /\ IF list = <<>>
              THEN /\ adjacent' = <<>>
                   /\ adjacencyIndex' = 0
                   /\ pc' = "propagate"
              ELSE /\ adjacent' = list
                   /\ adjacencyIndex' = 1
                   /\ pc' = "visit"
    /\ UNCHANGED <<width, height, catalog, seedArg, runSeedArg, tiles, seed, grid,
                   selected, regens, first, result, pushes>>

\* propagateAtCoordinates, line 199: the stack is empty, control returns to run
propagated ==
    /\ pc = "propagate"
    /\ stack = <<>>
    /\ pc' = "running"
    /\ UNCHANGED <<width, height, catalog, seedArg, runSeedArg, tiles, seed, grid,
                   selected, stack, coordinates, adjacent, adjacencyIndex, regens, first,
                   result, pushes>>

\* propagateAtCoordinates, lines 202-226: one iteration of the for loop over the
\* neighbours of the popped cell.  A regeneration (regenerateGrid, lines 95-97)
\* returns from propagateAtCoordinates to the loop of run.  Line 210 reads
\* cell.validAdjacent[direction]: on a cell without validAdjacent that throws.
visit ==
    /\ pc = "visit"
    /\ LET cell == get(grid, coordinates.x, coordinates.y)
           adjacencyInfo == adjacent[adjacencyIndex]
           adjacentCell == get(grid, adjacencyInfo.x, adjacencyInfo.y)
           reducing == constrains(cell, adjacentCell)
           throws == reducing /\ cell.validAdjacent = UndefinedList
           options == IF reducing
                      THEN newOptions(adjacentCell,
                                      cell.validAdjacent[adjacencyInfo.direction + 1])
                      ELSE <<>>
           conflict == /\ cell.isCollapsed
                       /\ adjacentCell.isCollapsed
                       /\ socketsDiffer(cell, adjacentCell, adjacencyInfo)
           exhausted == reducing /\ Len(options) < 1
           shrunk == reducing /\ hasShrunk(options, adjacentCell)
       IN  IF throws
           THEN /\ pc' = "threw"
                /\ UNCHANGED <<grid, seed, regens, stack, adjacent, adjacencyIndex,
                               pushes>>
           ELSE IF conflict \/ exhausted
           THEN /\ regens < MaxRegens
                /\ grid' = generateEmptyGrid(tiles, width, height, seed)
                /\ seed' = seedAfterGeneration(seed, width, height)
                /\ regens' = regens + 1
                /\ stack' = <<>>
                /\ adjacent' = <<>>
                /\ adjacencyIndex' = 0
                /\ pc' = "running"
                /\ pushes' = pushes
           ELSE /\ grid' =
                     IF ~shrunk THEN grid
                     ELSE set(grid, adjacencyInfo.x, adjacencyInfo.y,
                              IF Len(options) = 1
                              THEN collapse(adjacentCell, tiles[options[1] + 1])
                              ELSE [adjacentCell EXCEPT
                                       !.options = options,
                                       !.entropy = getEntropyByIndices(tiles, options),
                                       !.sumOfWeights =
                                           getSumOfWeightsByIndices(tiles, options)])
                /\ stack' = IF shrunk
                            THEN Append(stack, [x |-> adjacencyInfo.x,
                                                y |-> adjacencyInfo.y])
                            ELSE stack
                /\ pushes' = IF shrunk THEN pushes + 1 ELSE pushes
                /\ IF adjacencyIndex = Len(adjacent)
                   THEN /\ adjacent' = <<>>
                        /\ adjacencyIndex' = 0
                        /\ pc' = "propagate"
                   ELSE /\ adjacent' = adjacent
                        /\ adjacencyIndex' = adjacencyIndex + 1
                        /\ pc' = "visit"
                /\ UNCHANGED <<seed, regens>>
    /\ UNCHANGED <<width, height, catalog, seedArg, runSeedArg, tiles, selected,
                   coordinates, first, result>>

Next ==
    \/ run
    \/ runLoop
    \/ collapseCoordinates
    \/ pop
    \/ propagated
    \/ visit

Spec == Init /\ [][Next]_vars

\* ------------------------------------------- a second engine, same arguments
\* The caller keeps the outcome of the finished run and constructs and runs
\* another engine with the same catalog, dimensions and seed arguments.
reconstruct ==
    /\ pc \in {"returned", "threw"}
    /\ ~first.built
    /\ first' = [built |-> TRUE, outcome |-> pc, items |-> grid.items, regens |-> regens]
    /\ \E s0 \in setSeed(seedArg) :
           /\ grid' = generateEmptyGrid(defineAdjacencies(catalog), width, height, s0)
           /\ seed' = seedAfterGeneration(s0, width, height)
    /\ tiles' = defineAdjacencies(catalog)
    /\ pc' = "constructed"
    /\ selected' = UndefinedCoordinates
    /\ stack' = <<>>
    /\ coordinates' = UndefinedCoordinates
    /\ adjacent' = <<>>
    /\ adjacencyIndex' = 0
    /\ regens' = 0
    /\ pushes' = 0
    /\ UNCHANGED <<width, height, catalog, seedArg, runSeedArg, result>>

NextTwice ==
    \/ Next
    \/ reconstruct

SpecTwice == Init /\ [][NextTwice]_vars

\* ------------------------------------------------- the run carried on to its end
\* run is a sequential loop: a step that can be taken is taken.  The engines
\* followed to the end are those constructed with a catalog of one tile.
SingleTileCatalogs == {c \in Catalogs : Len(c) = 1}

InitSingle == Construct(SingleTileCatalogs)

LiveSpec == InitSingle /\ [][Next]_vars /\ WF_vars(Next)

\* ------------------------------------------------ the passes carried on to their end
\* propagateAtCoordinates is a sequential loop: while it can take a step it does.
PassSpec == Init /\ [][Next]_vars /\ WF_vars(pop \/ visit \/ propagated)

\* ------------------------------------------------------------ Grid on its own
\* new Grid(x, y, isWrappingAllowed) and calls of getAdjacent on its cells
InitGrid ==
    \E gx \in 1..MaxGridDim, gy \in 1..MaxGridDim, wrap \in BOOLEAN :
        /\ width = gx
        /\ height = gy
        /\ grid = Grid(gx, gy, wrap)
        /\ catalog = <<>>
        /\ seedArg = 0
        /\ runSeedArg = 0
        /\ tiles = <<>>
        /\ seed = 0
        /\ pc = "grid"
        /\ selected = UndefinedCoordinates
        /\ stack = <<>>
        /\ coordinates = UndefinedCoordinates
        /\ adjacent = <<>>
        /\ adjacencyIndex = 0
        /\ regens = 0
        /\ first = NoFirst
        /\ result = NoResult
        /\ pushes = 0

callGetAdjacent ==
    /\ pc \in {"grid", "adjacent"}
    /\ \E cx \in 0..(grid.dimensions.x - 1), cy \in 0..(grid.dimensions.y - 1) :
           /\ coordinates' = [x |-> cx, y |-> cy]
           /\ adjacent' = getAdjacent(grid, cx, cy)
    /\ pc' = "adjacent"
    /\ UNCHANGED <<width, height, catalog, seedArg, runSeedArg, tiles, seed, grid,
                   selected, stack, adjacencyIndex, regens, first, result, pushes>>

NextGrid == callGetAdjacent

SpecGrid == InitGrid /\ [][NextGrid]_vars

\* ------------------------------------------------------------- Rng on its own
\* new Rng(seed) and calls of nextFloat and nextInt made by a caller, with the
\* argument max (0..MaxMaxArg) given or left out.

\* Math.floor of numerator / Modulus * max: the number of k in 1..max with
\* k * Modulus <= numerator * max
Floor(n, max) == Cardinality({k \in 1..max : ~ProductLess(n, max, Modulus, k)})

\* nextFloat(max), lines 24-32: the value returned from the seed the call finds;
\* without max the draw itself is returned (line 31)
nextFloatReturns(seedValue, hasMax, max) ==
    IF hasMax
    THEN Returned(RandomTable[seedValue + 1], max, Modulus)
    ELSE Returned(RandomTable[seedValue + 1], 1, Modulus)

\* nextInt(max), lines 20-22: the floor is computed and dropped, the function has
\* no return statement
nextIntReturns(seedValue, hasMax, max) == Undefined

InitRng ==
    \E sa \in 0..MaxSeedArg :
        \E s0 \in setSeed(sa) :
            /\ seedArg = sa
            /\ seed = s0
            /\ pc = "rng"
            /\ result = NoResult
            /\ width = 0
            /\ height = 0
            /\ catalog = <<>>
            /\ runSeedArg = 0
            /\ tiles = <<>>
            /\ grid = Grid(0, 0, FALSE)
            /\ selected = UndefinedCoordinates
            /\ stack = <<>>
            /\ coordinates = UndefinedCoordinates
            /\ adjacent = <<>>
            /\ adjacencyIndex = 0
            /\ regens = 0
            /\ first = NoFirst
            /\ pushes = 0

callNextFloat(hasMax, max) ==
    /\ pc = "rng"
    /\ seed < SeedLimit
    /\ seed' = seed + 1
    /\ result' = nextFloatReturns(seed, hasMax, max)
    /\ UNCHANGED <<width, height, catalog, seedArg, runSeedArg, tiles, grid, pc,
                   selected, stack, coordinates, adjacent, adjacencyIndex, regens,
                   first, pushes>>

\* nextInt calls nextFloat (line 21), which advances the seed
callNextInt(hasMax, max) ==
    /\ pc = "rng"
    /\ seed < SeedLimit
    /\ seed' = seed + 1
    /\ result' = nextIntReturns(seed, hasMax, max)
    /\ UNCHANGED <<width, height, catalog, seedArg, runSeedArg, tiles, grid, pc,
                   selected, stack, coordinates, adjacent, adjacencyIndex, regens,
                   first, pushes>>

MaxArgs == {<<TRUE, m>> : m \in 0..MaxMaxArg} \cup {<<FALSE, 0>>}

NextRng ==
    \/ \E a \in MaxArgs : callNextFloat(a[1], a[2])
    \/ \E a \in MaxArgs : callNextInt(a[1], a[2])

SpecRng == InitRng /\ [][NextRng]_vars

\* ------------------------------------------------------------------- claims
CellIndices == DOMAIN grid.items

\* C1: whenever run() has returned, every cell of the returned grid is collapsed
\* and its value is the value of one of the tiles of the catalog the engine was
\* constructed with.
C1_ReturnedGridIsCollapsed ==
    pc = "returned" =>
        \A i \in CellIndices :
            /\ grid.items[i].isCollapsed
            /\ \E t \in 1..Len(catalog) : grid.items[i].value = catalog[t].value

C1_Witness ==
    /\ pc = "returned"
    /\ grid.size = 4
    /\ Len(catalog) = 3
    /\ regens = 1
    /\ \E i, j \in CellIndices : grid.items[i].value # grid.items[j].value

SameAsFirst ==
    /\ grid.items = first.items
    /\ regens = first.regens

BothReturned ==
    /\ first.built
    /\ first.outcome = "returned"
    /\ pc = "returned"

\* C2, as stated: for every seed the constructor accepts, 0 and an omitted seed
\* included, two engines constructed with the same catalog, dimensions and seed
\* and then run return identical grids after the same number of regenerations.
C2_DeterministicForEverySeed == BothReturned => SameAsFirst

\* C2, amended: the same for every seed other than 0 (an omitted seed is 0).
C2_DeterministicForGivenSeed == (BothReturned /\ seedArg # 0) => SameAsFirst

C2_Witness ==
    /\ BothReturned
    /\ seedArg # 0
    /\ regens > 0
    /\ grid.size = 4
    /\ SameAsFirst

InvalidConfiguration ==
    \/ Len(catalog) = 0
    \/ width * height = 0
    \/ \E t \in 1..Len(catalog) : catalog[t].weight <= 0

\* C3: for an empty catalog, a zero-area grid or a tile of weight <= 0 no run is
\* started: no cell is ever selected or collapsed and run() never returns a grid.
C3_ConfigurationRejected ==
    InvalidConfiguration =>
        /\ pc \notin {"collapse", "propagate", "visit", "returned"}
        /\ \A i \in CellIndices : ~grid.items[i].isCollapsed

FreshGrid(g) ==
    /\ DOMAIN g.items = 1..(width * height)
    /\ \A i \in DOMAIN g.items :
           /\ ~g.items[i].isCollapsed
           /\ g.items[i].options = Indices(Len(tiles))
           /\ g.items[i].value = "undefined"

\* C4: the step in which propagateAtCoordinates detects a contradiction leaves
\* every cell uncollapsed with the full set of tile indices as options, ends the
\* propagation pass with the remaining stack entries unprocessed, and leaves the
\* generator's seed at its value before the step plus width * height.
C4_RegenerationIsFullRestart ==
    [][regens' # regens =>
          /\ FreshGrid(grid')
          /\ stack' = <<>>
          /\ pc' = "running"
          /\ seed' = seed + width * height]_vars

C4_Witness ==
    /\ regens = 2
    /\ pc = "running"
    /\ grid.size = 4
    /\ FreshGrid(grid)
    /\ seed > seedArg + 3 * width * height

\* the neighbour of cell i named by entry k of getAdjacent
NeighbourInfo(i, k) ==
    LET at == getCoordinatesFromIndex(grid, i - 1)
    IN  getAdjacent(grid, at.x, at.y)[k]

NeighbourCount(i) ==
    LET at == getCoordinatesFromIndex(grid, i - 1)
    IN  Len(getAdjacent(grid, at.x, at.y))

OptionsAllowedBy(i, k) ==
    LET info == NeighbourInfo(i, k)
        n == get(grid, info.x, info.y)
    IN  \A o \in 1..Len(n.options) :
            Includes(grid.items[i].validAdjacent[info.direction + 1], n.options[o])

\* C5: after a propagation pass that ended without regenerating the grid, for
\* every collapsed cell c and every uncollapsed cell n adjacent to it in
\* direction d, every tile index of n.options is in validAdjacent[d] of c's tile.
C5_PropagationSound ==
    pc = "running" =>
        \A i \in CellIndices :
            grid.items[i].isCollapsed =>
                \A k \in 1..NeighbourCount(i) :
                    LET info == NeighbourInfo(i, k)
                    IN  ~get(grid, info.x, info.y).isCollapsed => OptionsAllowedBy(i, k)

C5_Witness ==
    /\ pc = "running"
    /\ \E i \in CellIndices :
           /\ grid.items[i].isCollapsed
           /\ \E k \in 1..NeighbourCount(i) :
                  LET info == NeighbourInfo(i, k)
                      n == get(grid, info.x, info.y)
                  IN  /\ ~n.isCollapsed
                      /\ Len(n.options) < Len(tiles)
                      /\ OptionsAllowedBy(i, k)

ListedIn(a, d, b) == Includes(tiles[a].validAdjacent[d + 1], b - 1)

\* C6: after construction, for all tiles A and B and every direction d, the
\* index of B is in A.validAdjacent[d] exactly when A.sockets[d] equals
\* B.sockets[(d + 2) mod 4], and exactly when the index of A is in
\* B.validAdjacent[(d + 2) mod 4].
C6_AdjacencyCompiled ==
    \A a, b \in 1..Len(tiles) :
        \A d \in 0..3 :
            /\ ListedIn(a, d, b)
                   <=> tiles[a].sockets[d + 1] = tiles[b].sockets[((d + 2) % 4) + 1]
            /\ ListedIn(a, d, b) <=> ListedIn(b, (d + 2) % 4, a)

C6_Witness ==
    /\ Len(tiles) = 3
    /\ \E a, b \in 1..Len(tiles) :
           \E d \in 0..3 :
               /\ a # b
               /\ ListedIn(a, d, b)
               /\ ~ListedIn(a, (d + 1) % 4, b)
               /\ ~ListedIn(b, d, a)

InRange(info) ==
    /\ info.x \in 0..(grid.dimensions.x - 1)
    /\ info.y \in 0..(grid.dimensions.y - 1)

\* C7: with wraparound enabled, getAdjacent(0,0) on an N x M grid returns a left
\* neighbour (direction 3) at (N-1, 0) and an up neighbour (direction 0) at
\* (0, M-1), each with an index in 0..N*M-1; with wraparound disabled,
\* getAdjacent of a corner cell returns fewer than 4 neighbours, all in bounds.
C7_WrapAndBoundary ==
    pc = "adjacent" =>
        /\ (grid.isWrappingAllowed /\ coordinates = [x |-> 0, y |-> 0]) =>
               /\ \E k \in 1..Len(adjacent) :
                      /\ adjacent[k].direction = 3
                      /\ adjacent[k].x = grid.dimensions.x - 1
                      /\ adjacent[k].y = 0
                      /\ adjacent[k].index \in 0..(grid.size - 1)
               /\ \E k \in 1..Len(adjacent) :
                      /\ adjacent[k].direction = 0
                      /\ adjacent[k].x = 0
                      /\ adjacent[k].y = grid.dimensions.y - 1
                      /\ adjacent[k].index \in 0..(grid.size - 1)
        /\ (/\ ~grid.isWrappingAllowed
            /\ coordinates.x \in {0, grid.dimensions.x - 1}
            /\ coordinates.y \in {0, grid.dimensions.y - 1}) =>
               /\ Len(adjacent) < 4
               /\ \A k \in 1..Len(adjacent) : InRange(adjacent[k])

\* a catalog of one tile of positive weight that fits itself in all four directions
TrivialCatalog ==
    /\ Len(catalog) = 1
    /\ catalog[1].weight > 0
    /\ \A d \in 0..3 : catalog[1].sockets[d + 1] = catalog[1].sockets[((d + 2) % 4) + 1]

AllCollapsedTo(value) ==
    \A i \in CellIndices :
        /\ grid.items[i].isCollapsed
        /\ grid.items[i].value = value

\* C8: for a catalog of a single tile whose sockets fit themselves in all four
\* directions, run() terminates with every cell collapsed to that tile and
\* without any regeneration of the grid.
C8_TrivialCatalogTerminates ==
    TrivialCatalog =>
        <>(pc = "returned" /\ regens = 0 /\ AllCollapsedTo(catalog[1].value))

C8_Witness ==
    /\ TrivialCatalog
    /\ pc = "returned"
    /\ regens = 0
    /\ grid.size = 4
    /\ AllCollapsedTo(catalog[1].value)

\* tile a's right socket equals no tile's left socket
RightFitsNothing(a) ==
    \A t \in 1..Len(catalog) : catalog[a].sockets[2] # catalog[t].sockets[4]

FirstCellIs(a) ==
    /\ width = 2
    /\ height = 1
    /\ Len(catalog) = 2
    /\ RightFitsNothing(a)
    /\ regens = 0
    /\ grid.items[1].isCollapsed
    /\ grid.items[1].value = catalog[a].value

\* C9: on a 2 x 1 grid with a two-tile catalog in which tile A's right socket
\* equals no tile's left socket, once cell (0,0) is resolved to A no state with
\* both cells collapsed is reached before a regeneration of the grid.
C9_MismatchRegenerates ==
    \A a \in 1..Len(catalog) :
        FirstCellIs(a) => ~grid.items[2].isCollapsed

C9_Witness ==
    /\ pc = "visit"
    /\ \E a \in 1..Len(catalog) : FirstCellIs(a)
    /\ coordinates = [x |-> 0, y |-> 0]

AllWeightsPositive == \A t \in 1..Len(catalog) : catalog[t].weight > 0

StrictSubset(small, large) ==
    /\ \A o \in 1..Len(small) : Includes(large, small[o])
    /\ \E o \in 1..Len(large) : ~Includes(small, large[o])

\* C10: for a catalog whose weights are all > 0, a step that replaces an
\* uncollapsed cell's options by a strict subset leaves the cell's entropy
\* strictly smaller than before; and the entropy of every collapsed cell is
\* strictly greater than the entropy of every uncollapsed cell.
C10_EntropyMonotone ==
    [][AllWeightsPositive =>
          /\ \A i \in CellIndices :
                 (/\ regens' = regens
                  /\ ~grid.items[i].isCollapsed
                  /\ ~grid'.items[i].isCollapsed
                  /\ StrictSubset(grid'.items[i].options, grid.items[i].options))
                     => GreaterThan(grid.items[i].entropy, grid'.items[i].entropy)
          /\ \A i, j \in CellIndices :
                 (grid.items[i].isCollapsed /\ ~grid.items[j].isCollapsed)
                     => GreaterThan(grid.items[i].entropy, grid.items[j].entropy)]_vars

\* C11: a call of nextInt(max) returns the integer floor(nextFloat(max)) computed
\* from the seed the call finds, and every call of nextFloat or nextInt advances
\* the seed by exactly 1 and returns a value determined by that seed and max.
C11_DrawContract ==
    [][\A a \in MaxArgs :
          /\ callNextInt(a[1], a[2]) =>
                 /\ seed' = seed + 1
                 /\ result' = Returned(Floor(RandomTable[seed + 1],
                                             IF a[1] THEN a[2] ELSE 1), 1, 1)
          /\ callNextFloat(a[1], a[2]) =>
                 /\ seed' = seed + 1
                 /\ result' = nextFloatReturns(seed, a[1], a[2])]_vars

\* the part of C11 that holds: every call of nextFloat or nextInt advances the
\* seed by exactly 1, and a number returned is the draw of the seed the call found
C11_SeedAdvancesByOne ==
    [][(NextRng /\ result' # NoResult) =>
          /\ seed' = seed + 1
          /\ result'.type = "number" =>
                 /\ result'.numerator = RandomTable[seed + 1]
                 /\ result'.divisor = Modulus]_vars

\* a call of nextInt has returned undefined
C11_UndefinedReturned ==
    /\ pc = "rng"
    /\ result = Undefined
    /\ seed = 2

\* the sockets of the collapsed cell i and of its collapsed neighbour k agree on
\* the side they share
PairAgrees(i, k) ==
    LET info == NeighbourInfo(i, k)
        n == get(grid, info.x, info.y)
    IN  grid.items[i].sockets[info.direction + 1]
            = n.sockets[((info.direction + 2) % 4) + 1]

AllCollapsed == \A i \in CellIndices : grid.items[i].isCollapsed

AllPairsAgree == \A i \in CellIndices : \A k \in 1..NeighbourCount(i) : PairAgrees(i, k)

\* C12, as stated: no reachable state has all cells collapsed while the sockets
\* of some pair of adjacent cells disagree.
C12_NoCollapsedDisagreement == AllCollapsed => AllPairsAgree

\* C12, amended: in every grid returned by run(), for every collapsed cell c and
\* every neighbour n of it in direction d, c.sockets[d] = n.sockets[(d + 2) mod 4].
C12_ReturnedGridConsistent == pc = "returned" => AllPairsAgree

C12_Witness ==
    /\ pc = "returned"
    /\ grid.size = 4
    /\ regens > 0
    /\ \E i, j \in CellIndices : grid.items[i].sockets # grid.items[j].sockets
    /\ AllPairsAgree

\* the cell at the selected coordinates is uncollapsed, no cell has an entropy
\* below its entropy, and no cell before it in row-major order has its entropy
SelectedIsEarliestLowest ==
    /\ isDefinedAt(grid, selected.x, selected.y)
    /\ LET chosen == getIndexFromCoordinates(grid, selected.x, selected.y) + 1
       IN  /\ ~grid.items[chosen].isCollapsed
           /\ \A j \in CellIndices :
                  /\ ~GreaterThan(grid.items[chosen].entropy, grid.items[j].entropy)
                  /\ grid.items[j].entropy = grid.items[chosen].entropy => chosen <= j

\* C13: whenever a cell is uncollapsed, getLowestEntropyCoordinates returns the
\* coordinates of an uncollapsed cell whose entropy is the minimum over all cells,
\* the earliest in row-major order of the cells with that entropy.
C13_LowestEntropySelected == pc = "collapse" => SelectedIsEarliestLowest

\* the same for the catalogs in which every weight is positive
C13_LowestSelectedPositiveWeights ==
    (pc = "collapse" /\ AllWeightsPositive) => SelectedIsEarliestLowest

\* a selection among several cells of one entropy, the first cell not among them
C13_TieSelected ==
    /\ pc = "collapse"
    /\ AllWeightsPositive
    /\ SelectedIsEarliestLowest
    /\ selected # [x |-> 0, y |-> 0]
    /\ \E j \in CellIndices :
           /\ j # getIndexFromCoordinates(grid, selected.x, selected.y) + 1
           /\ grid.items[j].entropy = get(grid, selected.x, selected.y).entropy

\* the sum of the weights of the first p tiles of the options list
RECURSIVE RunningSum(_, _)
RunningSum(options, p) ==
    IF p = 0 THEN 0 ELSE RunningSum(options, p - 1) + tiles[options[p] + 1].weight

\* the running sum of weights exceeds the draw numerator / Modulus * sumOfWeights
Exceeds(sum, numerator, sumOfWeights) ==
    ProductLess(numerator, sumOfWeights, Modulus, sum)

\* position p of the options is the first at which the running sum exceeds the draw
FirstExceeding(options, p, numerator, sumOfWeights) ==
    /\ Exceeds(RunningSum(options, p), numerator, sumOfWeights)
    /\ \A q \in 1..(p - 1) :
           /\ ~Exceeds(RunningSum(options, q), numerator, sumOfWeights)
           /\ options[q] < options[p]

\* a collapse of a cell that is uncollapsed, with a positive sum of weights (a
\* draw r with 0 <= r < sumOfWeights exists)
CollapseCase ==
    /\ pc = "collapse"
    /\ isDefinedAt(grid, selected.x, selected.y)
    /\ ~get(grid, selected.x, selected.y).isCollapsed
    /\ get(grid, selected.x, selected.y).sumOfWeights > 0

\* C14: collapseCoordinates resolves an uncollapsed cell with options O, for the
\* draw r in [0, sumOfWeights), to the first tile in catalog order among O at which
\* the running sum of weights exceeds r; the tile is a member of O; for options of
\* weights 1 and 3 the first is chosen exactly for r in the first quarter of the
\* range; a propagation pass from the cell's coordinates follows immediately.
C14_CollapseRule ==
    [][CollapseCase =>
          LET cell == get(grid, selected.x, selected.y)
              numerator == RandomTable[seed + 1]
              after == get(grid', selected.x, selected.y)
          IN  /\ pc' = "propagate"
              /\ stack' = <<selected>>
              /\ after.isCollapsed
              /\ \E p \in 1..Len(cell.options) :
                     /\ FirstExceeding(cell.options, p, numerator, cell.sumOfWeights)
                     /\ after.value = tiles[cell.options[p] + 1].value
                     /\ after.sockets = tiles[cell.options[p] + 1].sockets
                     /\ (/\ Len(cell.options) = 2
                         /\ tiles[cell.options[1] + 1].weight = 1
                         /\ tiles[cell.options[2] + 1].weight = 3)
                            => (p = 1 <=> numerator <= Modulus \div 4)]_vars

\* a collapse among options of weights 1 and 3 has taken the tile of weight 1 and
\* started the propagation pass
C14_Witness ==
    /\ pc = "propagate"
    /\ stack = <<selected>>
    /\ Len(tiles) = 2
    /\ tiles[1].weight = 1
    /\ tiles[2].weight = 3
    /\ grid.size > 1
    /\ get(grid, selected.x, selected.y).value = tiles[1].value
    /\ \E j \in CellIndices : ~grid.items[j].isCollapsed

SetOf(list) == {list[li] : li \in 1..Len(list)}

\* the visit at hand is of an uncollapsed neighbour of a collapsed popped cell
ReducingVisit ==
    /\ pc = "visit"
    /\ get(grid, coordinates.x, coordinates.y).isCollapsed
    /\ ~get(grid, adjacent[adjacencyIndex].x, adjacent[adjacencyIndex].y).isCollapsed

\* n.options intersected with validAdjacent[d] of the popped cell
Intersection ==
    LET info == adjacent[adjacencyIndex]
    IN  SetOf(get(grid, info.x, info.y).options)
            \cap SetOf(get(grid, coordinates.x, coordinates.y)
                           .validAdjacent[info.direction + 1])

\* C15: when a collapsed cell c is popped and its neighbour n in direction d is
\* uncollapsed, the new admissible set of n is n.options intersected with
\* c.validAdjacent[d]; if it is non-empty and strictly smaller than n.options, n
\* is collapsed to its single tile when it has one member and otherwise gets it as
\* its options, and the coordinates of n are pushed exactly once; if it did not
\* shrink, n is left unchanged and nothing is pushed.
C15_PropagationStep ==
    [][ReducingVisit =>
          LET info == adjacent[adjacencyIndex]
              n == get(grid, info.x, info.y)
              after == get(grid', info.x, info.y)
          IN  /\ (Intersection # {} /\ Intersection # SetOf(n.options)) =>
                     /\ IF Cardinality(Intersection) = 1
                        THEN /\ after.isCollapsed
                             /\ \A o \in Intersection :
                                    /\ after.value = tiles[o + 1].value
                                    /\ after.sockets = tiles[o + 1].sockets
                        ELSE /\ ~after.isCollapsed
                             /\ SetOf(after.options) = Intersection
                             /\ Len(after.options) = Cardinality(Intersection)
                     /\ stack' = Append(stack, [x |-> info.x, y |-> info.y])
                     /\ pushes' = pushes + 1
                     /\ regens' = regens
              /\ Intersection = SetOf(n.options) =>
                     /\ grid' = grid
                     /\ stack' = stack
                     /\ pushes' = pushes]_vars

\* a neighbour has just been reduced to several options and pushed, another
\* neighbour collapsed to its single tile and pushed, in one pass
C15_Witness ==
    /\ pc \in {"visit", "propagate"}
    /\ pushes >= 2
    /\ Len(stack) >= 2
    /\ LET top == get(grid, stack[Len(stack)].x, stack[Len(stack)].y)
       IN  /\ ~top.isCollapsed
           /\ Len(top.options) \in 2..(Len(tiles) - 1)
    /\ \E k \in 1..(Len(stack) - 1) : get(grid, stack[k].x, stack[k].y).isCollapsed

\* the visit at hand is of a collapsed neighbour of a collapsed popped cell, and
\* the sockets on the side they share differ
DisagreeingVisit ==
    /\ pc = "visit"
    /\ LET info == adjacent[adjacencyIndex]
           c == get(grid, coordinates.x, coordinates.y)
           n == get(grid, info.x, info.y)
       IN  /\ c.isCollapsed
           /\ n.isCollapsed
           /\ n.sockets[((info.direction + 2) % 4) + 1] # c.sockets[info.direction + 1]

\* C16: when a popped cell c and its neighbour n in direction d are both
\* collapsed and n.sockets[(d + 2) mod 4] differs from c.sockets[d], the grid is
\* regenerated and the propagation pass ends at once.
C16_DisagreementRegenerates ==
    [][DisagreeingVisit =>
          /\ regens' = regens + 1
          /\ FreshGrid(grid')
          /\ stack' = <<>>
          /\ pushes' = pushes
          /\ pc' = "running"]_vars

\* the disagreement is reached between two cells that were both collapsed by
\* propagation, in the pass of the only collapse made since construction
C16_Witness ==
    /\ DisagreeingVisit
    /\ regens = 0
    /\ seedArg # 0
    /\ runSeedArg = 0
    /\ seed = seedArg + width * height + 1
    /\ coordinates # selected
    /\ [x |-> adjacent[adjacencyIndex].x, y |-> adjacent[adjacencyIndex].y] # selected

\* the cell's options are distinct valid tile indices, at least one, and its
\* sumOfWeights is the sum of the weights of the tiles they name
OptionsWellFormed(cell) ==
    /\ Len(cell.options) >= 1
    /\ \A o \in 1..Len(cell.options) :
           /\ cell.options[o] \in 0..(Len(tiles) - 1)
           /\ \A q \in 1..Len(cell.options) :
                  q # o => cell.options[q] # cell.options[o]
    /\ cell.sumOfWeights = RunningSum(cell.options, Len(cell.options))

\* C17: for a non-empty catalog, in every reachable state every uncollapsed cell
\* has a non-empty options set of valid tile indices, and its sumOfWeights is
\* the sum of the weights of exactly the tiles in its options.
C17_UncollapsedCellInvariant ==
    Len(catalog) > 0 =>
        \A i \in CellIndices : ~grid.items[i].isCollapsed => OptionsWellFormed(grid.items[i])

\* after a regeneration, a cell has been reduced to two of three tiles whose
\* weights differ from one another
C17_Witness ==
    /\ Len(catalog) = 3
    /\ regens > 0
    /\ \E i \in CellIndices :
           /\ ~grid.items[i].isCollapsed
           /\ Len(grid.items[i].options) = 2
           /\ OptionsWellFormed(grid.items[i])
           /\ grid.items[i].sumOfWeights # SumWeight(tiles, 1)
    /\ \E i \in CellIndices : grid.items[i].isCollapsed

\* the cell is collapsed exactly when its options are undefined and its value
\* and sockets are set, and a collapsed cell has entropy Infinity
CollapsedMeansResolved(cell) ==
    /\ cell.isCollapsed <=> (/\ cell.options = UndefinedOptions
                             /\ cell.value # "undefined"
                             /\ cell.sockets # UndefinedList)
    /\ cell.isCollapsed => cell.entropy = Infinity

\* a step that does not regenerate the grid leaves every collapsed cell as it is
CollapsedCellsKept ==
    regens' = regens =>
        /\ DOMAIN grid'.items = DOMAIN grid.items
        /\ \A i \in CellIndices :
               grid.items[i].isCollapsed =>
                   /\ grid'.items[i].isCollapsed
                   /\ grid'.items[i].value = grid.items[i].value
                   /\ grid'.items[i].sockets = grid.items[i].sockets

\* C18: a cell is collapsed if and only if its options are undefined and its
\* value and sockets are set (its entropy is then Infinity); a collapsed cell of
\* a grid never becomes uncollapsed and its value and sockets never change under
\* a later collapse or propagation step; only a regeneration of the whole grid
\* makes collapsed cells uncollapsed again.
C18_CollapseIrreversible ==
    /\ [](\A i \in CellIndices : CollapsedMeansResolved(grid.items[i]))
    /\ [][CollapsedCellsKept]_vars

\* after a regeneration, a pass has collapsed a neighbour next to a cell
\* collapsed before it, and a cell is still uncollapsed
C18_Witness ==
    /\ regens > 0
    /\ pc = "running"
    /\ pushes > 0
    /\ Cardinality({i \in CellIndices : grid.items[i].isCollapsed}) >= 2
    /\ \E i \in CellIndices : ~grid.items[i].isCollapsed
    /\ \A i \in CellIndices : CollapsedMeansResolved(grid.items[i])

\* an uncollapsed cell has no admissible tile
SomeCellWithoutOptions ==
    \E i \in CellIndices : ~grid.items[i].isCollapsed /\ grid.items[i].options = <<>>

\* C19: the call of isCollapsed() in the loop of run returns true if and only if
\* the flag of every cell is set, and when an uncollapsed cell has an empty
\* admissible set the call regenerates the grid.
C19_IsCollapsedDefends ==
    [][pc = "running" =>
          /\ pc' = "returned" <=> AllCollapsed
          /\ SomeCellWithoutOptions =>
                 /\ regens' = regens + 1
                 /\ FreshGrid(grid')]_vars

\* the part of C19 that holds: the call returns true exactly when every flag is
\* set, and it changes neither the grid nor the seed
C19_TrueIffAllCollapsed ==
    [][pc = "running" =>
          /\ pc' = "returned" <=> AllCollapsed
          /\ UNCHANGED <<grid, seed, regens>>]_vars

\* isCollapsed() has returned false for a grid with a cell without options, and
\* the grid is as it was
C19_NotRegenerated ==
    /\ pc = "collapse"
    /\ SomeCellWithoutOptions
    /\ regens = 0

\* the total number of admissible tiles over the uncollapsed cells of a grid
RECURSIVE AdmissibleFrom(_, _)
AdmissibleFrom(g, from) ==
    IF from > Len(g.items) THEN 0
    ELSE (IF g.items[from].isCollapsed THEN 0 ELSE Len(g.items[from].options))
             + AdmissibleFrom(g, from + 1)

TotalAdmissible(g) == AdmissibleFrom(g, 1)

InPass == pc \in {"propagate", "visit"}

\* C20: every propagation pass terminates: the stack becomes empty or the pass
\* ends by a regeneration, because each push comes with a strict decrease of the
\* total number of admissible tiles over the uncollapsed cells, so that a pass
\* makes at most width * height * (number of tiles) pushes.
C20_PassTerminates ==
    /\ [][pushes' = pushes + 1 => TotalAdmissible(grid') < TotalAdmissible(grid)]_vars
    /\ [](InPass => pushes <= width * height * Len(tiles))
    /\ ((InPass /\ regens < MaxRegens) ~> pc = "running")

\* a pass that made three pushes has ended with an empty stack
C20_Witness ==
    /\ pc = "running"
    /\ pushes = 3
    /\ stack = <<>>
    /\ regens < MaxRegens

\* the visit at hand is of a neighbour of a popped cell that was reduced and is
\* still uncollapsed
UncollapsedPopped ==
    /\ pc = "visit"
    /\ LET popped == grid.items[getIndexFromCoordinates(grid, coordinates.x,
                                                        coordinates.y) + 1]
       IN  /\ ~popped.isCollapsed
           /\ Len(popped.options) < Len(tiles)

\* the cell at index j is next to the popped cell: one step up, right, down or left
DirectNeighbour(j) ==
    LET at == getCoordinatesFromIndex(grid, j - 1)
        dx == at.x - coordinates.x
        dy == at.y - coordinates.y
    IN  dx * dx + dy * dy = 1

\* C21: when the popped coordinate refers to a cell that was reduced but is
\* still uncollapsed, the visit of a neighbour modifies no cell, pushes nothing
\* and regenerates nothing, and the loop goes on; so a step of a pass that changes
\* a cell without regenerating the grid starts from a collapsed popped cell and
\* changes only a direct neighbour of it.
C21_UncollapsedPopChangesNothing ==
    [][/\ UncollapsedPopped =>
              /\ grid' = grid
              /\ stack' = stack
              /\ pushes' = pushes
              /\ regens' = regens
              /\ pc' \in {"visit", "propagate"}
       /\ (pc = "visit" /\ grid' # grid /\ regens' = regens) =>
              /\ get(grid, coordinates.x, coordinates.y).isCollapsed
              /\ \A j \in CellIndices :
                     grid'.items[j] # grid.items[j] => DirectNeighbour(j)]_vars

\* a reduced, still uncollapsed cell has been popped and the visit of its first
\* neighbour, itself uncollapsed, has been made
C21_Witness ==
    /\ UncollapsedPopped
    /\ adjacencyIndex = 2
    /\ ~get(grid, adjacent[1].x, adjacent[1].y).isCollapsed

====
